---- MODULE Spec2Model ----
(***************************************************************************)
(* A model of the shell lexer of src/src/lexer.rs: the Scanner, its cursor *)
(* primitives, the dispatch of scan_token and its sub-recognizers.         *)
(*                                                                         *)
(* A character is a one-character string, a Rust String is a sequence of   *)
(* characters, an Option is a sequence of length 0 (None) or 1 (Some).     *)
(* Offsets are 0-based as in the source; sequences are 1-based, so the     *)
(* character at offset i is source[i + 1].  Inputs are ASCII, for which    *)
(* byte offsets and chars().nth() positions agree.                         *)
(***************************************************************************)
EXTENDS Integers, Sequences, FiniteSets, TLC

VARIABLES source, start, current, had_error, tokens, diagnostics, pc, result

vars == <<source, start, current, had_error, tokens, diagnostics, pc, result>>

(***************************************************************************)
(* Bounds of the explored inputs.                                          *)
(***************************************************************************)
MaxLen == 3
MaxRangeLen == 8
MaxNumLen == 5
MaxExpandLen == 5
MaxTailLen == 4
MaxLiveLen == 4
MaxOperandsLen == 7

(***************************************************************************)
(* Character classes (ASCII part of the char methods of the std library).  *)
(***************************************************************************)
DigitChars == <<"0", "1", "2", "3", "4", "5", "6", "7", "8", "9">>

LowerChars == {"a", "b", "c", "d", "e", "f", "g", "h", "i", "j", "k", "l", "m",
               "n", "o", "p", "q", "r", "s", "t", "u", "v", "w", "x", "y", "z"}

UpperChars == {"A", "B", "C", "D", "E", "F", "G", "H", "I", "J", "K", "L", "M",
               "N", "O", "P", "Q", "R", "S", "T", "U", "V", "W", "X", "Y", "Z"}

is_numeric(c) == \E i \in 1..10 : DigitChars[i] = c

is_alphabetic(c) == c \in LowerChars \cup UpperChars

is_ascii_alphabetic(c) == c \in LowerChars \cup UpperChars

is_alphanumeric(c) == is_alphabetic(c) \/ is_numeric(c)

is_whitespace(c) == c \in {" ", "\t", "\n", "\r", "\f"}

is_pair_delimiter(c) == c \in {")", "}", "]", "(", "{", "[", "\"", "'"}

is_special_character(c) == c \in {"$", "&", "!", ";", "="}

allowed_name_char(c) == is_alphanumeric(c) \/ c = "_"

get_pair_match(c) ==
    CASE c = "(" -> <<")">>
      [] c = "{" -> <<"}">>
      [] c = "[" -> <<"]">>
      [] c = ")" -> <<"(">>
      [] c = "}" -> <<"{">>
      [] c = "]" -> <<"{">>
      [] OTHER   -> <<>>

(***************************************************************************)
(* Option helpers.                                                         *)
(***************************************************************************)
None == <<>>

Some(x) == <<x>>

is_some(o) == o # <<>>

is_none(o) == o = <<>>

\* The loop condition of parse_word (lines 265-267).
word_char(c) == ~is_whitespace(c) /\ ~is_pair_delimiter(c) /\ ~is_special_character(c)

\* The function items and closures the code hands to is_some_and, each named
\* by a string, applied to the character c.
call(P, c) ==
    CASE P = "is_numeric"        -> is_numeric(c)
      [] P = "is_alphabetic"     -> is_alphabetic(c)
      [] P = "is_whitespace"     -> is_whitespace(c)
      [] P = "allowed_name_char" -> allowed_name_char(c)
      [] P = "word_char"         -> word_char(c)
      [] P = "not_whitespace"    -> ~is_whitespace(c)
      [] P = "not_dot"           -> c # "."
      [] P = "closing_brace"     -> c = "}"
      [] P = "not_double_quote"  -> c # "\""
      [] P = "not_single_quote"  -> c # "'"
      [] P = "ascii_alphabetic_or_minus" -> is_ascii_alphabetic(c) \/ c = "-"

is_some_and(o, P) == o # <<>> /\ call(P, o[1])

(***************************************************************************)
(* String helpers: str::trim, slicing, str::contains, str::parse.          *)
(***************************************************************************)
RECURSIVE trim_start(_)
trim_start(s) ==
    IF s # <<>> /\ is_whitespace(Head(s)) THEN trim_start(Tail(s)) ELSE s

RECURSIVE trim_end(_)
trim_end(s) ==
    IF s # <<>> /\ is_whitespace(s[Len(s)])
    THEN trim_end(SubSeq(s, 1, Len(s) - 1))
    ELSE s

trim(s) == trim_end(trim_start(s))

\* source[a..b] is defined (does not panic) exactly when a <= b <= len.
slice_ok(s, a, b) == a <= b /\ b <= Len(s)

slice(s, a, b) == SubSeq(s, a + 1, b)

contains(s, c) == \E i \in 1..Len(s) : s[i] = c

digit_value(c) == (CHOOSE i \in 1..10 : DigitChars[i] = c) - 1

RECURSIVE digits_value(_)
digits_value(s) ==
    IF s = <<>> THEN 0
    ELSE 10 * digits_value(SubSeq(s, 1, Len(s) - 1)) + digit_value(s[Len(s)])

all_digits(s) == \A i \in 1..Len(s) : is_numeric(s[i])

\* str::parse::<i64>: an optional sign followed by at least one digit.  The
\* digit runs of the explored inputs are far below the i64 range.
parse_i64(s) ==
    LET signed == s # <<>> /\ s[1] \in {"-", "+"}
        body   == IF signed THEN Tail(s) ELSE s
    IN  IF body # <<>> /\ all_digits(body)
        THEN [ok |-> TRUE,
              val |-> IF signed /\ s[1] = "-" THEN 0 - digits_value(body)
                      ELSE digits_value(body)]
        ELSE [ok |-> FALSE, val |-> 0]

RECURSIVE strip_zeros(_)
strip_zeros(s) ==
    IF s # <<>> /\ s[Len(s)] = "0" THEN strip_zeros(SubSeq(s, 1, Len(s) - 1)) ELSE s

\* str::parse::<f32> of the literals the scanner hands it, [-]digits.digits:
\* the value is sign * mant / 10^scale, with the fraction's trailing zeros
\* dropped so that equal values are equal records (1.50 = 1.5).
parse_f32(s) ==
    LET signed == s # <<>> /\ s[1] \in {"-", "+"}
        body   == IF signed THEN Tail(s) ELSE s
        dots   == {i \in 1..Len(body) : body[i] = "."}
    IN  IF Cardinality(dots) = 1
        THEN LET d    == CHOOSE i \in dots : TRUE
                 ip   == SubSeq(body, 1, d - 1)
                 fp   == strip_zeros(SubSeq(body, d + 1, Len(body)))
             IN  IF all_digits(ip) /\ all_digits(fp) /\ Len(body) > 1
                 THEN [ok |-> TRUE,
                       val |-> [neg   |-> signed /\ s[1] = "-"
                                          /\ digits_value(ip \o fp) # 0,
                                mant  |-> digits_value(ip \o fp),
                                scale |-> Len(fp)]]
                 ELSE [ok |-> FALSE, val |-> [neg |-> FALSE, mant |-> 0, scale |-> 0]]
        ELSE [ok |-> FALSE, val |-> [neg |-> FALSE, mant |-> 0, scale |-> 0]]

unwrap_or(r, d) == IF r.ok THEN r.val ELSE d

f32_zero == [neg |-> FALSE, mant |-> 0, scale |-> 0]

(***************************************************************************)
(* Tokens (TokenType, lexer.rs lines 4-44).                                *)
(***************************************************************************)
Tok(type) == [type |-> type]

EOF == Tok("EOF")

Word(text) == [type |-> "Word", text |-> text]

GlobbedWord(text) == [type |-> "GlobbedWord", text |-> text]

DoubleQuotedString(text) == [type |-> "DoubleQuotedString", text |-> text]

SingleQuotedString(text) == [type |-> "SingleQuotedString", text |-> text]

VariableExpansion(text) == [type |-> "VariableExpansion", text |-> text]

SubshellExpansion(inner) == [type |-> "SubshellExpansion", inner |-> inner]

Integer(n) == [type |-> "Integer", value |-> n]

Float(f) == [type |-> "Float", value |-> f]

RangeExpressionNumeric(a, b, by) ==
    [type |-> "RangeExpressionNumeric", first |-> a, last |-> b, by |-> by]

RangeExpressionAlphabetic(a, b, by) ==
    [type |-> "RangeExpressionAlphabetic", first |-> a, last |-> b, by |-> by]

(***************************************************************************)
(* The Scanner as a value: the fields of the struct, the diagnostics it    *)
(* has written to stderr, and whether it has panicked.                     *)
(***************************************************************************)
new_scanner(src) ==
    [source      |-> trim(src),
     start       |-> 0,
     current     |-> 0,
     had_error   |-> FALSE,
     tokens      |-> <<>>,
     diagnostics |-> <<>>,
     panicked    |-> FALSE]

panic(s) == [s EXCEPT !.panicked = TRUE]

is_at_end(s) == s.current >= Len(s.source)

increment_current(s) ==
    IF s.panicked THEN s ELSE [s EXCEPT !.current = s.current + 1]

increment_n(s, n) ==
    IF s.panicked THEN s ELSE [s EXCEPT !.current = s.current + n]

add_token(s, tok_type) ==
    IF s.panicked THEN s ELSE [s EXCEPT !.tokens = Append(s.tokens, tok_type)]

\* emit_error with the assignment of line 241 left out.
emit_error_flag_forgotten(s, message) ==
    IF s.panicked THEN s
    ELSE IF s.current = 0 THEN panic(s)
    ELSE [s EXCEPT !.diagnostics = Append(s.diagnostics,
                                          [col |-> s.current - 1, msg |-> message])]

\* " ".repeat(self.current - 1): the subtraction overflows when current = 0
\* (a panic in a debug build, a capacity overflow of repeat in a release one).
emit_error(s, message) ==
    IF s.panicked THEN s
    ELSE IF s.current = 0 THEN panic([s EXCEPT !.had_error = TRUE])
    ELSE [s EXCEPT !.had_error = TRUE,
                   !.diagnostics = Append(s.diagnostics,
                                          [col |-> s.current - 1, msg |-> message])]

char_at(s, i) == IF i >= 0 /\ i < Len(s.source) THEN Some(s.source[i + 1]) ELSE None

peek(s) == char_at(s, s.current)

peek_prev(s) == IF s.current = 0 THEN None ELSE char_at(s, s.current - 1)

peek_next(s) == char_at(s, s.current + 1)

\* The offset at which `while self.peek().is_some_and(P) { increment_current }`
\* stops: the first offset from current on that is past the end or fails P.
run_end(s, P) ==
    IF s.current >= Len(s.source) THEN s.current
    ELSE CHOOSE e \in s.current..Len(s.source) :
            /\ e = Len(s.source) \/ ~call(P, s.source[e + 1])
            /\ \A j \in s.current..(e - 1) : call(P, s.source[j + 1])

skip_while(s, P) == IF s.panicked THEN s ELSE [s EXCEPT !.current = run_end(s, P)]

\* self.current = self.start (lines 326 and 342).
rewind(s) == [s EXCEPT !.current = s.start]

word_token(text) == IF contains(text, "*") THEN GlobbedWord(text) ELSE Word(text)

\* Lines 270-278, after the loop of parse_word.
add_word(s) ==
    IF ~slice_ok(s.source, s.start, s.current) THEN panic(s)
    ELSE add_token(s, word_token(slice(s.source, s.start, s.current)))

parse_word(s) == add_word(skip_while(s, "word_char"))

\* add_variable with the name taken from the `$` on.
add_variable_with_dollar(s) ==
    IF ~slice_ok(s.source, s.start, s.current) THEN panic(s)
    ELSE add_token(s, VariableExpansion(slice(s.source, s.start, s.current)))

\* Lines 284-286, after the loop of parse_variable.
add_variable(s) ==
    IF ~slice_ok(s.source, s.start + 1, s.current) THEN panic(s)
    ELSE add_token(s, VariableExpansion(slice(s.source, s.start + 1, s.current)))

parse_variable(s) == add_variable(skip_while(s, "allowed_name_char"))

\* Lines 346-347.
add_integer(s) ==
    IF ~slice_ok(s.source, s.start, s.current) THEN panic(s)
    ELSE add_token(s, Integer(unwrap_or(parse_i64(slice(s.source, s.start, s.current)), 0)))

\* Lines 336-340.
add_float(s) ==
    IF ~slice_ok(s.source, s.start, s.current) THEN panic(s)
    ELSE add_token(s, Float(unwrap_or(parse_f32(slice(s.source, s.start, s.current)),
                                      f32_zero)))

\* float_rescan with the cursor reset and the word not scanned.
float_rescan_without_word(s) ==
    IF is_some_and(peek(s), "not_whitespace")
    THEN rewind(s)
    ELSE s

\* Lines 341-344: what follows the float literal decides about a re-scan.
float_rescan(s) ==
    IF is_some_and(peek(s), "not_whitespace")
    THEN parse_word(rewind(s))
    ELSE s

\* number_after_digits with the test of line 325 left out.
number_after_digits_no_backtrack(s) ==
    IF peek(s) = Some(".") /\ is_some_and(peek_next(s), "is_numeric")
    THEN float_rescan(add_float(skip_while(increment_current(s), "is_numeric")))
    ELSE add_integer(s)

\* Lines 325-348, after the first digit run.
number_after_digits(s) ==
    IF is_some_and(peek(s), "is_alphabetic")
    THEN parse_word(rewind(s))
    ELSE IF peek(s) = Some(".") /\ is_some_and(peek_next(s), "is_numeric")
    THEN float_rescan(add_float(skip_while(increment_current(s), "is_numeric")))
    ELSE add_integer(s)

parse_number(s) == number_after_digits(skip_while(s, "is_numeric"))

\* integer_result with a failed parse taken as zero.
integer_result_defaulting(s) ==
    [scanner |-> s,
     result  |-> [ok  |-> TRUE,
                  val |-> IF s.current < Len(s.source)
                          THEN unwrap_or(parse_i64(slice(s.source, s.start, s.current)), 0)
                          ELSE 0]]

\* Lines 355-359, after the loop of parse_and_get_integer: the scanner and
\* the Result<i64, ParseIntError> returned.
integer_result(s) ==
    [scanner |-> s,
     result  |-> IF s.current < Len(s.source)
                 THEN parse_i64(slice(s.source, s.start, s.current))
                 ELSE parse_i64(<<"a">>)]

\* parse_and_get_integer with the test of line 355 left out: the slice is
\* taken wherever the cursor is.
parse_and_get_integer_unguarded(s) ==
    IF slice_ok(s.source, s.current, run_end([s EXCEPT !.start = s.current], "is_numeric"))
    THEN [scanner |-> skip_while([s EXCEPT !.start = s.current], "is_numeric"),
          result  |-> parse_i64(slice(s.source, s.current,
                                      run_end([s EXCEPT !.start = s.current], "is_numeric")))]
    ELSE [scanner |-> panic(s), result |-> parse_i64(<<"a">>)]

parse_and_get_integer(s) ==
    integer_result(skip_while([s EXCEPT !.start = s.current], "is_numeric"))

RangeFormsMsg3 ==
    "range expressions can take the form {i..i..i} or {a..a..i} (where 'i' is an integer, and 'a' is a character)"

RangeFormsMsg4 ==
    "range expressions can take the form {i..i}, {a..a}, {i..i..i} or {a..a..i} (where 'i' is an integer, and 'a' is a character)"

RangeDotsMsg ==
    "must have '..', range expressions can take the form {i..i..i} or {a..a..i} (where 'i' is an integer, and 'a' is a character)"

RangeParseMsg == " error parsing range expressions"

\* The separator test of lines 366, 389, 418 and 438: an error only when the
\* next character and the one after it both exist and both are not a dot.
separator_rejected(s) ==
    is_some_and(peek(s), "not_dot") /\ is_some_and(peek_next(s), "not_dot")

\* numeric_after_step with the two operands in each other's place.
numeric_after_step_swapped(by, first, last) ==
    IF ~by.result.ok
    THEN emit_error(by.scanner, RangeParseMsg)
    ELSE increment_current(
             add_token(by.scanner,
                       RangeExpressionNumeric(last, first, Some(by.result.val))))

\* Lines 398-409, with by the result of parse_and_get_integer.
numeric_after_step(by, first, last) ==
    IF ~by.result.ok
    THEN emit_error(by.scanner, RangeParseMsg)
    ELSE increment_current(
             add_token(by.scanner,
                       RangeExpressionNumeric(first, last, Some(by.result.val))))

\* Lines 395-414: the step of a numeric range, after the second separator.
numeric_step(s, first, last) ==
    IF is_some_and(peek(s), "is_numeric")
    THEN numeric_after_step(parse_and_get_integer(s), first, last)
    ELSE emit_error(increment_current(s), RangeFormsMsg3)

\* Lines 374-393, with first and last the results of parse_and_get_integer.
numeric_after_end(first, last) ==
    IF ~last.result.ok \/ ~first.result.ok
    THEN emit_error(last.scanner, RangeParseMsg)
    ELSE IF is_some_and(peek(last.scanner), "closing_brace")
    THEN increment_current(
             add_token(last.scanner,
                       RangeExpressionNumeric(first.result.val, last.result.val, None)))
    ELSE IF separator_rejected(last.scanner)
    THEN emit_error(last.scanner, RangeFormsMsg4)
    ELSE numeric_step(increment_n(last.scanner, 2), first.result.val, last.result.val)

\* Lines 366-372, with first the result of parse_and_get_integer.
numeric_after_start(first) ==
    IF separator_rejected(first.scanner)
    THEN emit_error(first.scanner, RangeFormsMsg3)
    ELSE numeric_after_end(first, parse_and_get_integer(increment_n(first.scanner, 2)))

\* Lines 363-414.
numeric_range(s) == numeric_after_start(parse_and_get_integer(s))

\* Lines 447-458, with by the result of parse_and_get_integer.
alphabetic_after_step(by, first, last) ==
    IF ~by.result.ok
    THEN emit_error(by.scanner, RangeParseMsg)
    ELSE increment_current(
             add_token(by.scanner,
                       RangeExpressionAlphabetic(first, last, Some(by.result.val))))

\* Lines 444-463: the step of an alphabetic range, after the second separator.
alphabetic_step(s, first, last) ==
    IF is_some_and(peek(s), "is_numeric")
    THEN alphabetic_after_step(parse_and_get_integer(s), first, last)
    ELSE emit_error(increment_current(s), RangeFormsMsg3)

\* Lines 432-442, with the cursor after the second letter.
alphabetic_after_end(s, first, last) ==
    IF is_some_and(peek(s), "closing_brace")
    THEN increment_current(add_token(s, RangeExpressionAlphabetic(first, last, None)))
    ELSE IF separator_rejected(s)
    THEN emit_error(s, RangeDotsMsg)
    ELSE alphabetic_step(increment_n(s, 2), first, last)

\* Lines 423-430, with the cursor after increment_n(3).
alphabetic_end(s, first) ==
    IF is_some_and(peek(s), "is_alphabetic")
    THEN alphabetic_after_end(increment_current(s), first, peek(s)[1])
    ELSE emit_error(s, RangeFormsMsg3)

\* Lines 415-463.
alphabetic_range(s) ==
    IF separator_rejected(s)
    THEN emit_error(s, RangeDotsMsg)
    ELSE alphabetic_end(increment_n(s, 3), peek(s)[1])

parse_range_expression(s) ==
    IF is_some_and(peek(s), "is_numeric") THEN numeric_range(s)
    ELSE IF is_some_and(peek(s), "is_alphabetic") THEN alphabetic_range(s)
    ELSE emit_error(s, RangeFormsMsg3)

\* Lines 295-303: paren_stack after the character c has been looked at.
paren_stack_after(paren_stack, c, pair_open, pair_close) ==
    IF c = pair_open THEN Append(paren_stack, pair_open)
    ELSE IF c = pair_close /\ paren_stack # <<>>
            /\ paren_stack[Len(paren_stack)] = pair_open
    THEN SubSeq(paren_stack, 1, Len(paren_stack) - 1)
    ELSE paren_stack

\* The loop of lines 294-309 from offset cur on, with paren_stack as it is on
\* entry to the iteration: the offset and the stack the loop ends with.
RECURSIVE subshell_loop(_, _, _, _, _)
subshell_loop(src, cur, paren_stack, pair_open, pair_close) ==
    IF cur >= Len(src) THEN [current |-> cur, paren_stack |-> paren_stack]
    ELSE IF paren_stack_after(paren_stack, src[cur + 1], pair_open, pair_close) = <<>>
    THEN [current |-> cur, paren_stack |-> <<>>]
    ELSE subshell_loop(src, cur + 1,
                       paren_stack_after(paren_stack, src[cur + 1], pair_open, pair_close),
                       pair_open, pair_close)

RECURSIVE scan_tokens(_)

\* Lines 78-82.
get_tokens_result(err, toks) == IF err THEN None ELSE Some(toks)

\* get_tokens on a scanner value: the scanner after scan_tokens, and the
\* Option<Vec<Token>> returned.
get_tokens_of(done) ==
    [scanner |-> done, value |-> get_tokens_result(done.had_error, done.tokens)]

get_tokens(s) == get_tokens_of(scan_tokens(s))

\* add_subshell with the failure of the nested scan taken over by this scanner.
add_subshell_propagating(s, inner) ==
    IF inner.scanner.panicked THEN panic(s)
    ELSE add_token([s EXCEPT !.had_error = s.had_error \/ is_none(inner.value)],
                   SubshellExpansion(inner.value))

\* Line 315, with inner what get_tokens gave for the nested scanner.
add_subshell(s, inner) ==
    IF inner.scanner.panicked THEN panic(s)
    ELSE add_token(s, SubshellExpansion(inner.value))

\* subshell_after_loop with the test of line 310 left out.
subshell_after_loop_unchecked(s, paren_stack) ==
    IF ~slice_ok(s.source, s.start + 2, s.current) THEN panic(s)
    ELSE add_subshell(s, get_tokens(new_scanner(slice(s.source, s.start + 2, s.current))))

\* subshell_after_loop with the nested source taken from the `(` on.
subshell_after_loop_from_paren(s, paren_stack) ==
    IF paren_stack # <<>>
    THEN emit_error(s, " unmatched pair")
    ELSE IF ~slice_ok(s.source, s.start + 1, s.current) THEN panic(s)
    ELSE add_subshell(s, get_tokens(new_scanner(slice(s.source, s.start + 1, s.current))))

\* Lines 310-316, with the cursor where the loop left it.
subshell_after_loop(s, paren_stack) ==
    IF paren_stack # <<>>
    THEN emit_error(s, " unmatched pair")
    ELSE IF ~slice_ok(s.source, s.start + 2, s.current) THEN panic(s)
    ELSE add_subshell(s, get_tokens(new_scanner(slice(s.source, s.start + 2, s.current))))

\* Lines 291-317, for the pair of the character under the cursor.
subshell_scan(s, l) ==
    increment_current(subshell_after_loop([s EXCEPT !.current = l.current], l.paren_stack))

parse_subshell_expansion(s) ==
    IF is_none(get_pair_match(peek(s)[1])) THEN s
    ELSE subshell_scan(s, subshell_loop(s.source, s.current, <<>>,
                                        peek(s)[1], get_pair_match(peek(s)[1])[1]))

\* add_double_quoted with the payload taken from the opening quote on.
add_double_quoted_keeping_quote(s) ==
    IF ~slice_ok(s.source, s.start, s.current) THEN panic(s)
    ELSE increment_current(
             add_token(s, DoubleQuotedString(slice(s.source, s.start, s.current))))

\* Lines 135-138 and 147-150.
add_double_quoted(s) ==
    IF ~slice_ok(s.source, s.start + 1, s.current) THEN panic(s)
    ELSE increment_current(
             add_token(s, DoubleQuotedString(slice(s.source, s.start + 1, s.current))))

add_single_quoted(s) ==
    IF ~slice_ok(s.source, s.start + 1, s.current) THEN panic(s)
    ELSE increment_current(
             add_token(s, SingleQuotedString(slice(s.source, s.start + 1, s.current))))

\* Lines 131-133 and 143-145: the check sits inside the loop body, so it is
\* made only after an increment (the loop has moved the cursor from `before`)
\* and finds no character only at the end of the source.
unterminated_check(s, before) ==
    IF s.current > before /\ is_none(peek(s))
    THEN emit_error(s, "Unterminated string literal")
    ELSE s

\* The `"` arm, lines 128-139.
double_quote(s) ==
    add_double_quoted(unterminated_check(skip_while(s, "not_double_quote"), s.current))

\* The `'` arm, lines 140-151.
single_quote(s) ==
    add_single_quoted(unterminated_check(skip_while(s, "not_single_quote"), s.current))

\* Lines 111-123.
dollar(s) ==
    IF peek(s) = Some("(")
    THEN parse_subshell_expansion(s)
    ELSE IF peek(s) = Some("{")
    THEN increment_current(parse_variable(increment_current(s)))
    ELSE IF is_some_and(peek(s), "allowed_name_char")
    THEN parse_variable(s)
    ELSE emit_error(s, " expand what?")

\* Lines 152-159.
star(s) ==
    IF is_some_and(peek(s), "is_whitespace") THEN add_token(s, Tok("Glob"))
    ELSE parse_word(s)

\* Lines 160-167.
pound(s) ==
    IF peek(s) = Some("!")
    THEN increment_current(add_token(s, Tok("Shebang")))
    ELSE add_token(s, Tok("Pound"))

\* Lines 168-174.
bang(s) ==
    IF is_some_and(peek(s), "is_whitespace") THEN add_token(s, Tok("Bang"))
    ELSE parse_word(s)

\* dot with the test of lines 181-182 left out: two dots are always a word.
dot_without_dotdot(s) ==
    IF peek(s) = Some(".")
    THEN parse_word(s)
    ELSE IF is_some_and(peek(s), "is_whitespace") \/ is_none(peek(s))
         THEN add_token(s, Tok("Dot"))
         ELSE parse_word(s)

\* Lines 179-196.
dot(s) ==
    IF peek(s) = Some(".")
    THEN IF is_some_and(peek_next(s), "is_whitespace") \/ is_none(peek_next(s))
         THEN increment_current(add_token(s, Tok("DotDot")))
         ELSE parse_word(s)
    ELSE IF is_some_and(peek(s), "is_whitespace") \/ is_none(peek(s))
         THEN add_token(s, Tok("Dot"))
         ELSE parse_word(s)

\* equals with the tests of what follows the `=` (lines 198 and 202) left out.
equals_without_lookahead(s) ==
    IF is_some_and(peek_prev(s), "is_whitespace")
    THEN emit_error(s, " whitespace around equals")
    ELSE IF is_none(peek_prev(s)) THEN emit_error(s, " what equals?")
    ELSE add_token(s, Tok("Equal"))

\* Lines 197-209.
equals(s) ==
    IF is_some_and(peek(s), "is_whitespace") \/ is_some_and(peek_prev(s), "is_whitespace")
    THEN emit_error(s, " whitespace around equals")
    ELSE IF is_none(peek(s)) THEN emit_error(s, " equals what?")
    ELSE IF is_none(peek_prev(s)) THEN emit_error(s, " what equals?")
    ELSE add_token(s, Tok("Equal"))

\* Lines 210-217.
greater(s) ==
    IF peek(s) = Some(">")
    THEN increment_current(add_token(s, Tok("AppendRedirect")))
    ELSE add_token(s, Tok("OutputRedirect"))

\* minus with the lexeme of the number starting after the sign.
minus_sign_dropped(s) ==
    IF is_some_and(peek(s), "ascii_alphabetic_or_minus")
    THEN parse_word(s)
    ELSE IF is_some_and(peek(s), "is_numeric")
    THEN parse_number([s EXCEPT !.start = s.current])
    ELSE add_token(s, Tok("Minus"))

\* Lines 218-227.
minus(s) ==
    IF is_some_and(peek(s), "ascii_alphabetic_or_minus")
    THEN parse_word(s)
    ELSE IF is_some_and(peek(s), "is_numeric") THEN parse_number(s)
    ELSE add_token(s, Tok("Minus"))

\* Lines 228-236 (the message also quotes the character).
default_arm(s, c) ==
    IF is_numeric(c) THEN parse_number(s)
    ELSE IF is_ascii_alphabetic(c) THEN parse_word(s)
    ELSE emit_error(s, " invalid character")

\* skipped_characters with the letter left out.
skipped_characters_without_r == {"\t", "\n", " "}

\* The characters of the arm of line 127, which returns at once.
skipped_characters == {"\t", "\n", "r", " "}

\* The match of lines 98-237 on the character c that next_char returned,
\* with the cursor already past it.
dispatch(s, c) ==
    CASE c = "("  -> add_token(s, Tok("LeftParen"))
      [] c = ")"  -> add_token(s, Tok("RightParen"))
      [] c = "["  -> add_token(s, Tok("LeftBracket"))
      [] c = "]"  -> add_token(s, Tok("RightBracket"))
      [] c = "{"  -> parse_range_expression(s)
      [] c = "}"  -> add_token(s, Tok("RightBrace"))
      [] c = ","  -> add_token(s, Tok("Comma"))
      [] c = "+"  -> add_token(s, Tok("Plus"))
      [] c = ";"  -> add_token(s, Tok("Semicolon"))
      [] c = "|"  -> add_token(s, Tok("Pipe"))
      [] c = "$"  -> dollar(s)
      [] c = "<"  -> add_token(s, Tok("InputRedirect"))
      [] c = "\\" -> add_token(s, Tok("Backslash"))
      [] c = "/"  -> add_token(s, Tok("Forwardslash"))
      [] c \in skipped_characters -> s
      [] c = "\"" -> double_quote(s)
      [] c = "'"  -> single_quote(s)
      [] c = "*"  -> star(s)
      [] c = "#"  -> pound(s)
      [] c = "!"  -> bang(s)
      [] c = "&"  -> add_token(s, Tok("Ampersand"))
      [] c = "."  -> dot(s)
      [] c = "="  -> equals(s)
      [] c = ">"  -> greater(s)
      [] c = "-"  -> minus(s)
      [] OTHER    -> default_arm(s, c)

\* One dispatch, lines 96-239: next_char, then the arm of the character read.
scan_token(s) ==
    IF is_none(peek(s)) THEN increment_current(s)
    ELSE dispatch(increment_current(s), peek(s)[1])

\* The body of the loop of scan_tokens, lines 86-87.
scan_step(s) == scan_token([s EXCEPT !.start = s.current])

\* push_eof with the push of line 89 left out.
push_eof_forgotten(s) == s

\* Line 89.
push_eof(s) == add_token(s, EOF)

\* Lines 84-90, run to completion (a panic ends the run where it happens).
scan_tokens(s) ==
    IF s.panicked THEN s
    ELSE IF is_at_end(s) THEN push_eof(s)
    ELSE scan_tokens(scan_step(s))

(***************************************************************************)
(* The program as a state machine: Scanner::new, then one step per         *)
(* iteration of the loop of scan_tokens, the push of EOF, and the return   *)
(* of get_tokens.  pc is the position in get_tokens.                       *)
(***************************************************************************)
Self ==
    [source      |-> source,
     start       |-> start,
     current     |-> current,
     had_error   |-> had_error,
     tokens      |-> tokens,
     diagnostics |-> diagnostics,
     panicked    |-> FALSE]

Strings(alphabet, n) == UNION {[1..k -> alphabet] : k \in 0..n}

\* One character of every kind the dispatch and the recognizers tell apart.
Alphabet ==
    {"(", ")", "{", "}", "|", ";", "$", " ", "r", "\"", "'", "*", "#", "!",
     ".", "=", ">", "-", "1", "a", "_"}

RangeAlphabet == {".", "1", "a", "}"}

NumAlphabet == {"1", "0", ".", "a", " ", ";", "-"}

ExpandAlphabet == {"$", "(", ")", "{", "}", "a", " ", "="}

\* The raw inputs of each specification, up to n characters (after a fixed
\* prefix where there is one).
Inputs(n) == Strings(Alphabet, n)

RangeInputs(n) == {<<"{">> \o b : b \in Strings(RangeAlphabet, n)}

NumInputs(n) == Strings(NumAlphabet, n)

ExpandInputs(n) == Strings(ExpandAlphabet, n)

\* Range expressions with two well-formed operands and a first `..`, followed
\* by any text: a closing brace, a step, or something malformed.
LiveAlphabet == {"1", ".", "a", "$", "(", ")"}

LiveInputs(n) == Strings(LiveAlphabet, n)

RangeOperands == {<<"1">>, <<"2">>, <<"1", "2">>, <<"a">>, <<"b">>}

RangeTailAlphabet == {".", "1", "2", "a", "}"}

RangeFormInputs(n) ==
    {<<"{">> \o a \o <<".", ".">> \o b \o tail :
        a \in RangeOperands, b \in RangeOperands,
        tail \in Strings(RangeTailAlphabet, n)}

Constructed(s) ==
    /\ source = s.source
    /\ start = s.start
    /\ current = s.current
    /\ had_error = s.had_error
    /\ tokens = s.tokens
    /\ diagnostics = s.diagnostics

\* Scanner::new(raw), lines 66-74, for a raw input of the set given.
InitFrom(raws) ==
    /\ \E raw \in raws : Constructed(new_scanner(raw))
    /\ pc = "scanning"
    /\ result = [returned |-> FALSE, value |-> None]

Init == InitFrom(Inputs(MaxLen))

InitRange == InitFrom(RangeInputs(MaxRangeLen))

InitNum == InitFrom(NumInputs(MaxNumLen))

InitExpand == InitFrom(ExpandInputs(MaxExpandLen))

InitRangeForms == InitFrom(RangeFormInputs(MaxTailLen))

InitLive == InitFrom(LiveInputs(MaxLiveLen))

InitOperands == InitFrom(RangeInputs(MaxOperandsLen))

\* The fields of the scanner become those of the value s; a panic ends the run.
Becomes(s) ==
    /\ start' = s.start
    /\ current' = s.current
    /\ had_error' = s.had_error
    /\ tokens' = s.tokens
    /\ diagnostics' = s.diagnostics
    /\ pc' = IF s.panicked THEN "panicked" ELSE "scanning"

\* One iteration of the loop of scan_tokens (lines 85-88).
ScanToken ==
    /\ pc = "scanning"
    /\ ~is_at_end(Self)
    /\ Becomes(scan_step(Self))
    /\ UNCHANGED <<source, result>>

\* The loop of scan_tokens ends and EOF is pushed (lines 85, 89).
ScanEnd ==
    /\ pc = "scanning"
    /\ is_at_end(Self)
    /\ tokens' = push_eof(Self).tokens
    /\ pc' = "scanned"
    /\ UNCHANGED <<source, start, current, had_error, diagnostics, result>>

\* get_tokens returns (lines 78-82).
GetTokens ==
    /\ pc = "scanned"
    /\ result' = [returned |-> TRUE, value |-> get_tokens_result(had_error, tokens)]
    /\ pc' = "done"
    /\ UNCHANGED <<source, start, current, had_error, tokens, diagnostics>>

Next == ScanToken \/ ScanEnd \/ GetTokens

Spec == Init /\ [][Next]_vars

SpecRange == InitRange /\ [][Next]_vars

SpecNum == InitNum /\ [][Next]_vars

SpecExpand == InitExpand /\ [][Next]_vars

SpecRangeForms == InitRangeForms /\ [][Next]_vars

SpecOperands == InitOperands /\ [][Next]_vars

\* The scanner values that the loop of scan_tokens goes through from s on,
\* for at most fuel iterations.
RECURSIVE scan_states(_, _)
scan_states(s, fuel) ==
    IF fuel = 0 \/ s.panicked \/ is_at_end(s) THEN {s}
    ELSE {s} \cup scan_states(scan_step(s), fuel - 1)

\* scan_step as a table, by source, over the scanner values of the inputs of
\* InitLive: TLC evaluates ENABLED without keeping the values of operator
\* arguments, so the step under the fairness condition is looked up, not
\* recomputed.
scan_step_table ==
    [src \in {raw : raw \in LiveInputs(MaxLiveLen)} |->
        [s \in scan_states(new_scanner(src), MaxLiveLen) |-> scan_step(s)]]

\* ScanToken with the iteration looked up in scan_step_table.
ScanTokenLive ==
    /\ pc = "scanning"
    /\ ~is_at_end(Self)
    /\ Becomes(scan_step_table[source][Self])
    /\ UNCHANGED <<source, result>>

NextLive == ScanTokenLive \/ ScanEnd \/ GetTokens

\* The scan under the scheduling of a sequential program: a step that can be
\* taken is taken (the loop of lines 85-88 and the return of get_tokens run
\* without waiting on anything).
SpecLive == InitLive /\ [][NextLive]_vars /\ WF_vars(NextLive)

(***************************************************************************)
(* Vocabulary of the properties.                                           *)
(***************************************************************************)
\* The loop of scan_tokens is about to dispatch on the character at current.
AtBoundary == pc = "scanning" /\ current < Len(source)

\* The character at offset i of the source, if any.
At(i) == IF i >= 0 /\ i < Len(source) THEN Some(source[i + 1]) ELSE None

\* The first offset from i on that is past the end or whose character fails P.
RunEnd(i, P) ==
    IF i >= Len(source) THEN i
    ELSE CHOOSE e \in i..Len(source) :
            /\ e = Len(source) \/ ~call(P, source[e + 1])
            /\ \A j \in i..(e - 1) : call(P, source[j + 1])

Returned == pc = "done" /\ result.returned

ReturnedNone == Returned /\ is_none(result.value)

ReturnedSome == Returned /\ is_some(result.value)

IsEOF(tok) == tok.type = "EOF"

IsRange(tok) == tok.type \in {"RangeExpressionNumeric", "RangeExpressionAlphabetic"}

EndsWithOneEOF(toks) ==
    /\ Len(toks) >= 1
    /\ IsEOF(toks[Len(toks)])
    /\ \A i \in 1..(Len(toks) - 1) : ~IsEOF(toks[i])

\* This step appended exactly the token tok.
Emits(tok) == tokens' = Append(tokens, tok)

\* This step appended exactly one token.
EmitsOne == Len(tokens') = Len(tokens) + 1 /\ SubSeq(tokens', 1, Len(tokens)) = tokens

Emitted == tokens'[Len(tokens')]

(***************************************************************************)
(* C1.  Whenever get_tokens returns Some(tokens), the sequence is not      *)
(* empty, its last element is EOF and no earlier element is EOF; EOF is    *)
(* pushed only after the scan loop has ended: while the loop runs the      *)
(* token sequence holds no EOF, and once it has ended it holds exactly     *)
(* one, in last place.                                                     *)
(***************************************************************************)
C1_EofOnceAndLast ==
    /\ pc = "scanning" => \A i \in 1..Len(tokens) : ~IsEOF(tokens[i])
    /\ pc \in {"scanned", "done"} => EndsWithOneEOF(tokens)
    /\ ReturnedSome => EndsWithOneEOF(result.value[1])

\* get_tokens has returned Some of a sequence of several tokens.
C1_Witness == ReturnedSome /\ Len(result.value[1]) >= 3

(***************************************************************************)
(* C2.  get_tokens returns None exactly when the scan wrote at least one   *)
(* diagnostic (emit_error ran); had_error is set from the first diagnostic *)
(* on; and a Some result is the complete token sequence.                   *)
(***************************************************************************)
C2_NoneIffError ==
    /\ diagnostics # <<>> => had_error
    /\ had_error => diagnostics # <<>>
    /\ Returned => (is_none(result.value) <=> diagnostics # <<>>)
    /\ ReturnedSome => result.value[1] = tokens

\* An error occurred after tokens had been accumulated, and None was returned.
C2_Witness == ReturnedNone /\ Len(tokens) >= 3 /\ Len(diagnostics) >= 1

(***************************************************************************)
(* C3.  An input with exactly one unterminated quote makes get_tokens      *)
(* return None.  Stated for the inputs that hold exactly one quote         *)
(* character in all: that quote opens a string which nothing closes.       *)
(***************************************************************************)
QuoteOffsets == {i \in 0..(Len(source) - 1) : source[i + 1] \in {"\"", "'"}}

C3_UnterminatedQuoteFails ==
    (Returned /\ Cardinality(QuoteOffsets) = 1) => is_none(result.value)

(***************************************************************************)
(* C4.  An `=` at a lexeme boundary whose preceding character is           *)
(* whitespace, or which is at offset 0, is an error, so get_tokens returns *)
(* None.  Stated for an `=` that no quote, `$` or `{` precedes: every      *)
(* lexeme before it then ends at the whitespace before it at the latest,   *)
(* so the `=` is at a lexeme boundary.                                     *)
(***************************************************************************)
EqualsWithoutLeftOperand(i) ==
    /\ source[i + 1] = "="
    /\ i = 0 \/ is_whitespace(source[i])
    /\ \A j \in 0..(i - 1) : source[j + 1] \notin {"\"", "'", "$", "{"}

C4_EqualsNeedsLeftOperand ==
    (Returned /\ \E i \in 0..(Len(source) - 1) : EqualsWithoutLeftOperand(i))
        => is_none(result.value)

(***************************************************************************)
(* C5.  For a lexeme ${name}, name a non-empty run of name characters, the *)
(* dispatch appends exactly VariableExpansion(name), the identifier only,  *)
(* and leaves the cursor right after the closing brace.                    *)
(***************************************************************************)
BracedNameEnd == RunEnd(current + 2, "allowed_name_char")

BracedVariable ==
    /\ AtBoundary
    /\ source[current + 1] = "$"
    /\ At(current + 1) = Some("{")
    /\ BracedNameEnd > current + 2
    /\ At(BracedNameEnd) = Some("}")

C5_BracedVariableName ==
    [][BracedVariable
       => (/\ Emits(VariableExpansion(slice(source, current + 2, BracedNameEnd)))
           /\ current' = BracedNameEnd + 1)]_vars

(***************************************************************************)
(* C6.  A range token is emitted only if every separator between           *)
(* consecutive operands is the two characters `..`: when the dispatch of a *)
(* `{` finds anything else where a separator belongs, it sets the error    *)
(* flag and appends no token.  An operand is a digit run (numeric form) or *)
(* one letter (alphabetic form); the first separator belongs right after   *)
(* the first operand, the second right after the second operand when that  *)
(* is not followed by the closing brace.                                   *)
(***************************************************************************)
OperandEnd(i) ==
    IF is_some_and(At(i), "is_numeric") THEN RunEnd(i, "is_numeric") ELSE i + 1

DotsAt(i) == At(i) = Some(".") /\ At(i + 1) = Some(".")

RangeOpened ==
    /\ AtBoundary
    /\ source[current + 1] = "{"
    /\ (is_some_and(At(current + 1), "is_numeric") \/ is_some_and(At(current + 1), "is_alphabetic"))

FirstSeparator == OperandEnd(current + 1)

SecondSeparator == OperandEnd(FirstSeparator + 2)

BadSeparator ==
    \/ ~DotsAt(FirstSeparator)
    \/ /\ SecondSeparator > FirstSeparator + 2
       /\ At(SecondSeparator) # Some("}")
       /\ ~DotsAt(SecondSeparator)

C6_RangeSeparatorsAreDots ==
    [][(RangeOpened /\ BadSeparator) => (had_error' /\ tokens' = tokens)]_vars

(***************************************************************************)
(* C7.  A range token is emitted only if the range expression is closed by *)
(* `}`: whenever the dispatch of a `{` appends a range token, the last     *)
(* character it consumed, the terminator, is `}`; otherwise it sets the    *)
(* error flag and appends no token.                                        *)
(***************************************************************************)
C7_RangeClosedByBrace ==
    [][(AtBoundary /\ source[current + 1] = "{")
       => \/ had_error' /\ tokens' = tokens
          \/ /\ EmitsOne
             /\ IsRange(Emitted)
             /\ current' <= Len(source)
             /\ source[current'] = "}"]_vars

(***************************************************************************)
(* C8.  A float-shaped lexeme (digits, `.`, digits) yields exactly one     *)
(* token: a Float when whitespace or the end of the input follows it, and  *)
(* otherwise only the Word or GlobbedWord of the span re-scanned from its  *)
(* start.  No dispatch appends more than one token.                        *)
(***************************************************************************)
IntegerPartEnd == RunEnd(current, "is_numeric")

FloatEnd == RunEnd(IntegerPartEnd + 1, "is_numeric")

FloatShaped ==
    /\ AtBoundary
    /\ is_numeric(source[current + 1])
    /\ At(IntegerPartEnd) = Some(".")
    /\ is_some_and(At(IntegerPartEnd + 1), "is_numeric")

C8_FloatLexemeOneToken ==
    [][/\ pc = "scanning" => Len(tokens') <= Len(tokens) + 1
       /\ FloatShaped =>
             /\ EmitsOne
             /\ IF is_none(At(FloatEnd)) \/ is_some_and(At(FloatEnd), "is_whitespace")
                THEN Emitted.type = "Float" /\ current' = FloatEnd
                ELSE /\ Emitted.type \in {"Word", "GlobbedWord"}
                     /\ Emitted.text = slice(source, current, current')]_vars

(***************************************************************************)
(* C9.  A `!` at a lexeme boundary yields Bang when the next character is  *)
(* whitespace and also when the `!` is the last character of the input; in *)
(* every other case it yields a word (of the word recognizer: Word, or     *)
(* GlobbedWord when it holds a `*`) whose text begins with `!`.            *)
(***************************************************************************)
C9_BangAloneOrWord ==
    [][(AtBoundary /\ source[current + 1] = "!")
       => IF is_none(At(current + 1)) \/ is_some_and(At(current + 1), "is_whitespace")
          THEN Emits(Tok("Bang"))
          ELSE /\ EmitsOne
               /\ Emitted.type \in {"Word", "GlobbedWord"}
               /\ Emitted.text[1] = "!"]_vars

(***************************************************************************)
(* C10.  A `*` at a lexeme boundary yields the standalone Glob when the    *)
(* next character is whitespace and also when the `*` is the last          *)
(* character of the input; in every other case the word recognizer scans   *)
(* it and it yields a GlobbedWord.                                         *)
(***************************************************************************)
C10_GlobAloneOrGlobbedWord ==
    [][(AtBoundary /\ source[current + 1] = "*")
       => IF is_none(At(current + 1)) \/ is_some_and(At(current + 1), "is_whitespace")
          THEN Emits(Tok("Glob"))
          ELSE /\ EmitsOne
               /\ Emitted.type = "GlobbedWord"
               /\ Emitted.text[1] = "*"]_vars

(***************************************************************************)
(* C11.  Round trip of word lexemes: whenever the scan has emitted a Word  *)
(* or GlobbedWord whose text w holds no whitespace, no pair or quote       *)
(* delimiter and no special character, get_tokens on a fresh Scanner over  *)
(* w alone returns exactly [Word(w), EOF], or [GlobbedWord(w), EOF] when w *)
(* holds a `*`.                                                            *)
(***************************************************************************)
IsWord(tok) == tok.type \in {"Word", "GlobbedWord"}

PlainWordText(w) == \A i \in 1..Len(w) : word_char(w[i])

ScannedAlone(w) == get_tokens(new_scanner(w)).value

C11_WordRoundTrip ==
    \A i \in 1..Len(tokens) :
        (IsWord(tokens[i]) /\ PlainWordText(tokens[i].text))
            => ScannedAlone(tokens[i].text)
                   = Some(<<IF contains(tokens[i].text, "*")
                            THEN GlobbedWord(tokens[i].text)
                            ELSE Word(tokens[i].text), EOF>>)

(***************************************************************************)
(* C12.  For `$(` ... `)` with balanced parentheses, the dispatch of the   *)
(* `$` appends exactly one token, SubshellExpansion of what get_tokens     *)
(* returns for a fresh Scanner over the text strictly between `$(` and the *)
(* `)` that matches it (inner pairs nest), and leaves the cursor right     *)
(* after that `)`.                                                         *)
(***************************************************************************)
\* Opening minus closing parentheses among the offsets i..j.
ParenDepth(i, j) ==
    Cardinality({k \in i..j : source[k + 1] = "("})
        - Cardinality({k \in i..j : source[k + 1] = ")"})

\* The `(` at offset i has a matching `)`.
Balanced(i) == \E j \in i..(Len(source) - 1) : ParenDepth(i, j) = 0

\* The offset of the `)` that matches the `(` at offset i.
MatchingParen(i) ==
    CHOOSE j \in i..(Len(source) - 1) :
        /\ ParenDepth(i, j) = 0
        /\ \A k \in i..(j - 1) : ParenDepth(i, k) # 0

SubshellOpened ==
    /\ AtBoundary
    /\ source[current + 1] = "$"
    /\ At(current + 1) = Some("(")
    /\ Balanced(current + 1)

C12_SubshellPayloadAndResume ==
    [][SubshellOpened
       => /\ Emits(SubshellExpansion(
                       ScannedAlone(slice(source, current + 2,
                                          MatchingParen(current + 1)))))
          /\ current' = MatchingParen(current + 1) + 1]_vars

\* A subshell whose text holds a nested pair has been scanned: `$(())`.
C12_Witness ==
    \E i \in 1..Len(tokens) :
        tokens[i] = SubshellExpansion(Some(<<Tok("LeftParen"), Tok("RightParen"), EOF>>))

(***************************************************************************)
(* C13.  A failure of a nested subshell scan is not propagated: when       *)
(* get_tokens of the nested Scanner returns None, the dispatch of the `$`  *)
(* appends SubshellExpansion(None), leaves had_error as it was and writes  *)
(* no diagnostic; and when this scanner itself wrote no diagnostic,        *)
(* get_tokens returns Some.                                                *)
(***************************************************************************)
NestedScan == ScannedAlone(slice(source, current + 2, MatchingParen(current + 1)))

C13_NestedFailureNotPropagated ==
    /\ [](Returned /\ diagnostics = <<>> => is_some(result.value))
    /\ [][(SubshellOpened /\ is_none(NestedScan))
          => /\ Emits(SubshellExpansion(None))
             /\ had_error' = had_error
             /\ diagnostics' = diagnostics]_vars

\* get_tokens returned Some of a sequence that holds a failed subshell: `$(=)`.
C13_Witness ==
    /\ ReturnedSome
    /\ \E i \in 1..Len(tokens) : tokens[i] = SubshellExpansion(None)

(***************************************************************************)
(* C14.  Every lexeme of the range grammar yields exactly one range token  *)
(* carrying its operands: {i..j} gives RangeExpressionNumeric(i, j, None), *)
(* {i..j..k} RangeExpressionNumeric(i, j, Some(k)), {a..b}                 *)
(* RangeExpressionAlphabetic(a, b, None) and {a..b..k}                     *)
(* RangeExpressionAlphabetic(a, b, Some(k)), for digit runs i, j, k and    *)
(* single letters a, b; the cursor is left right after the closing brace   *)
(* and the error flag is not set.                                          *)
(***************************************************************************)
NumericOperandAt(i) == is_some_and(At(i), "is_numeric")

AlphabeticOperandAt(i) == is_some_and(At(i), "is_alphabetic")

RunValue(i) == digits_value(slice(source, i, RunEnd(i, "is_numeric")))

\* The two operands are both digit runs or both single letters.
OperandsAgree ==
    \/ NumericOperandAt(current + 1) /\ NumericOperandAt(FirstSeparator + 2)
    \/ AlphabeticOperandAt(current + 1) /\ AlphabeticOperandAt(FirstSeparator + 2)

StepStart == SecondSeparator + 2

StepEnd == RunEnd(StepStart, "is_numeric")

TwoOperandRange ==
    /\ RangeOpened
    /\ DotsAt(FirstSeparator)
    /\ OperandsAgree
    /\ At(SecondSeparator) = Some("}")

StepRange ==
    /\ RangeOpened
    /\ DotsAt(FirstSeparator)
    /\ OperandsAgree
    /\ DotsAt(SecondSeparator)
    /\ StepEnd > StepStart
    /\ At(StepEnd) = Some("}")

RangeToken(by) ==
    IF NumericOperandAt(current + 1)
    THEN RangeExpressionNumeric(RunValue(current + 1), RunValue(FirstSeparator + 2), by)
    ELSE RangeExpressionAlphabetic(source[current + 2], source[FirstSeparator + 3], by)

C14_RangeGrammarAccepted ==
    [][/\ TwoOperandRange
          => /\ Emits(RangeToken(None))
             /\ current' = SecondSeparator + 1
             /\ had_error' = had_error
       /\ StepRange
          => /\ Emits(RangeToken(Some(RunValue(StepStart))))
             /\ current' = StepEnd + 1
             /\ had_error' = had_error]_vars

\* A range with a step and two different operands has just been scanned
\* without an error, its closing brace consumed: `{1..2..1}`, `{a..b..1}`.
C14_Witness ==
    /\ ~had_error
    /\ current >= 1 /\ current <= Len(source) /\ source[current] = "}"
    /\ \E i \in 1..Len(tokens) :
          /\ IsRange(tokens[i])
          /\ tokens[i].first # tokens[i].last
          /\ tokens[i].by # None

(***************************************************************************)
(* C15.  A lexeme that starts with a digit: when its maximal digit run is  *)
(* directly followed by an alphabetic character, the dispatch appends      *)
(* exactly one token, the word recognizer's for the whole lexeme from its  *)
(* first digit on (a Word, or a GlobbedWord when the lexeme holds a `*`),  *)
(* and no Integer; when the run is followed by whitespace or the end of    *)
(* the input, it appends exactly one Integer with the run's decimal value. *)
(* An input of digit runs and whitespace only gives one Integer per run,   *)
(* in source order, then EOF.                                              *)
(***************************************************************************)
DigitLexeme == AtBoundary /\ is_numeric(source[current + 1])

WordEnd == RunEnd(current, "word_char")

WordText == slice(source, current, WordEnd)

RunThenLetter == DigitLexeme /\ is_some_and(At(IntegerPartEnd), "is_alphabetic")

RunThenBreak ==
    /\ DigitLexeme
    /\ is_none(At(IntegerPartEnd)) \/ is_some_and(At(IntegerPartEnd), "is_whitespace")

EmitsRunAsInteger == Emits(Integer(RunValue(current))) /\ current' = IntegerPartEnd

\* The offsets at which a digit run starts.
RunStarts ==
    {i \in 0..(Len(source) - 1) :
        is_numeric(source[i + 1]) /\ (i = 0 \/ ~is_numeric(source[i]))}

KthRunStart(k) ==
    CHOOSE i \in RunStarts : Cardinality({j \in RunStarts : j < i}) = k - 1

DigitsAndWhitespaceOnly ==
    \A i \in 1..Len(source) : is_numeric(source[i]) \/ is_whitespace(source[i])

IntegersInSourceOrder ==
    /\ ReturnedSome
    /\ Len(result.value[1]) = Cardinality(RunStarts) + 1
    /\ \A k \in 1..Cardinality(RunStarts) :
          result.value[1][k] = Integer(RunValue(KthRunStart(k)))
    /\ IsEOF(result.value[1][Len(result.value[1])])

C15_DigitLexemeWordOrInteger ==
    /\ []((Returned /\ DigitsAndWhitespaceOnly) => IntegersInSourceOrder)
    /\ [][/\ RunThenLetter
             => /\ Emits(IF contains(WordText, "*")
                         THEN GlobbedWord(WordText) ELSE Word(WordText))
                /\ current' = WordEnd
          /\ RunThenBreak => EmitsRunAsInteger]_vars

\* The claim as stated: the token of a digit run followed by a letter is
\* always a Word.
C15_DigitLexemeAlwaysWord ==
    /\ []((Returned /\ DigitsAndWhitespaceOnly) => IntegersInSourceOrder)
    /\ [][/\ RunThenLetter => (Emits(Word(WordText)) /\ current' = WordEnd)
          /\ RunThenBreak => EmitsRunAsInteger]_vars

\* A digit run followed by a letter has been scanned as one word token that
\* holds a `*`: `1a*`.
C15_Witness ==
    /\ Len(tokens) = 1
    /\ tokens[1].type = "GlobbedWord"
    /\ is_numeric(tokens[1].text[1])
    /\ is_alphabetic(tokens[1].text[2])

(***************************************************************************)
(* C16.  A `-` at a lexeme boundary is resolved by the next character.     *)
(* Followed by an ASCII letter or another `-`, the dispatch appends the    *)
(* word recognizer's token (Word, or GlobbedWord when it holds a `*`) for  *)
(* the lexeme from the `-` on.  Followed by a digit, the number recognizer *)
(* scans the lexeme from the `-` on: a digit run followed by an alphabetic *)
(* character gives the word token of the whole lexeme, and otherwise the   *)
(* first token appended is the Integer or the Float of the signed literal. *)
(* In every other case the dispatch appends Minus and consumes the `-`     *)
(* only.                                                                   *)
(***************************************************************************)
MinusLexeme == AtBoundary /\ source[current + 1] = "-"

MinusThenWord == MinusLexeme /\ is_some_and(At(current + 1), "ascii_alphabetic_or_minus")

MinusThenDigit == MinusLexeme /\ is_some_and(At(current + 1), "is_numeric")

SignedRunEnd == RunEnd(current + 1, "is_numeric")

SignedFractionEnd == RunEnd(SignedRunEnd + 1, "is_numeric")

SignedFloatShaped ==
    At(SignedRunEnd) = Some(".") /\ is_some_and(At(SignedRunEnd + 1), "is_numeric")

EmitsWordFromHere ==
    /\ Emits(IF contains(WordText, "*") THEN GlobbedWord(WordText) ELSE Word(WordText))
    /\ current' = WordEnd

\* The first token this step appended.
FirstEmitted == tokens'[Len(tokens) + 1]

EmitsSome == Len(tokens') > Len(tokens) /\ SubSeq(tokens', 1, Len(tokens)) = tokens

EmitsMinusOnly == Emits(Tok("Minus")) /\ current' = current + 1

C16_MinusByLookahead ==
    [][/\ MinusThenWord => EmitsWordFromHere
       /\ MinusThenDigit
          => IF is_some_and(At(SignedRunEnd), "is_alphabetic")
             THEN EmitsWordFromHere
             ELSE IF SignedFloatShaped
             THEN /\ EmitsSome
                  /\ FirstEmitted
                       = Float(parse_f32(slice(source, current, SignedFractionEnd)).val)
             ELSE /\ Emits(Integer(0 - RunValue(current + 1)))
                  /\ current' = SignedRunEnd
       /\ (MinusLexeme /\ ~MinusThenWord /\ ~MinusThenDigit) => EmitsMinusOnly]_vars

\* The claim as stated: a `-` followed by a letter or `-` gives a Word, and
\* a `-` followed by a digit always gives a numeric token of negative value
\* (a literal of zeros counted as such).
C16_MinusDigitAlwaysNegativeNumber ==
    [][/\ MinusThenWord => (Emits(Word(WordText)) /\ current' = WordEnd)
       /\ MinusThenDigit
          => /\ EmitsSome
             /\ \/ FirstEmitted.type = "Integer" /\ FirstEmitted.value <= 0
                \/ /\ FirstEmitted.type = "Float"
                   /\ FirstEmitted.value.neg \/ FirstEmitted.value.mant = 0
       /\ (MinusLexeme /\ ~MinusThenWord /\ ~MinusThenDigit) => EmitsMinusOnly]_vars

\* A `-` followed by a digit run and a letter has been scanned as one Word
\* that holds the sign: `-1a`.
C16_Witness ==
    /\ Len(tokens) = 1
    /\ tokens[1].type = "Word"
    /\ Len(tokens[1].text) >= 3
    /\ tokens[1].text[1] = "-"
    /\ is_numeric(tokens[1].text[2])

(***************************************************************************)
(* C17.  A `.` at a lexeme boundary yields DotDot, both dots consumed,     *)
(* exactly when a second `.` follows it and whitespace or the end of the   *)
(* input follows that; Dot, one character consumed, exactly when           *)
(* whitespace or the end of the input follows it directly; and in every    *)
(* other case the word recognizer's token (Word, or GlobbedWord when the   *)
(* lexeme holds a `*`) for the lexeme from the `.` on, dots included.      *)
(***************************************************************************)
DotLexeme == AtBoundary /\ source[current + 1] = "."

\* Whitespace or the end of the input is at offset i.
BreakAt(i) == is_none(At(i)) \/ is_some_and(At(i), "is_whitespace")

DotDotCase == DotLexeme /\ At(current + 1) = Some(".") /\ BreakAt(current + 2)

DotCase == DotLexeme /\ BreakAt(current + 1)

DotWordCase == DotLexeme /\ ~DotDotCase /\ ~DotCase

\* The word scanned from here on holds the leading dot or dots.
DotsInWord == WordEnd >= (IF At(current + 1) = Some(".") THEN current + 2 ELSE current + 1)

C17_DotByLookahead ==
    [][/\ DotDotCase => (Emits(Tok("DotDot")) /\ current' = current + 2)
       /\ DotCase => (Emits(Tok("Dot")) /\ current' = current + 1)
       /\ DotWordCase => (EmitsWordFromHere /\ DotsInWord)]_vars

\* The claim as stated: in every other case the token is a Word.
C17_DotOtherwiseAlwaysWord ==
    [][/\ DotDotCase => (Emits(Tok("DotDot")) /\ current' = current + 2)
       /\ DotCase => (Emits(Tok("Dot")) /\ current' = current + 1)
       /\ DotWordCase
          => (Emits(Word(WordText)) /\ current' = WordEnd /\ DotsInWord)]_vars

\* A lexeme of two dots and a `*` has been scanned as one GlobbedWord: `..*`.
C17_Witness ==
    /\ Len(tokens) = 1
    /\ tokens[1] = GlobbedWord(<<".", ".", "*">>)

(***************************************************************************)
(* C18.  An `=` lexeme (an `=` at a lexeme boundary) that whitespace       *)
(* follows, or that is the last character of the input, is an error: the   *)
(* dispatch sets the error flag and appends no token, and get_tokens       *)
(* returns None.  So `a=`, `a= a` and `==` are rejected, while `a=a`       *)
(* gives [Word, Equal, Word, EOF].  For an input that holds no quote, `$`  *)
(* or `{` before the `=`, every `=` is at a lexeme boundary.               *)
(***************************************************************************)
EqualsWithoutRightOperand(i) ==
    /\ source[i + 1] = "="
    /\ BreakAt(i + 1)
    /\ \A j \in 0..(i - 1) : source[j + 1] \notin {"\"", "'", "$", "{"}

Assignment == <<"a", "=", "a">>

C18_EqualsNeedsRightOperand ==
    /\ []((Returned /\ \E i \in 0..(Len(source) - 1) : EqualsWithoutRightOperand(i))
              => is_none(result.value))
    /\ []((Returned /\ source = Assignment)
              => result.value = Some(<<Word(<<"a">>), Tok("Equal"), Word(<<"a">>), EOF>>))
    /\ [][(AtBoundary /\ source[current + 1] = "=" /\ BreakAt(current + 1))
          => (had_error' /\ tokens' = tokens)]_vars

\* get_tokens returned None for a word directly followed by a final `=`: `a=`.
C18_Witness ==
    /\ ReturnedNone
    /\ source = <<"a", "=">>
    /\ tokens = <<Word(<<"a">>), EOF>>

(***************************************************************************)
(* C19.  For a terminated quoted string the dispatch of the opening quote  *)
(* appends exactly one token, DoubleQuotedString or SingleQuotedString of  *)
(* the text strictly between the opening quote and the first following     *)
(* quote of the same kind, unchanged and possibly empty; it leaves the     *)
(* cursor right after the closing quote and raises no error.               *)
(***************************************************************************)
\* The offset of the first `"` (or of the first `'`) after the character at
\* current, or the length of the source when there is none.
DoubleQuoteClose == RunEnd(current + 1, "not_double_quote")

SingleQuoteClose == RunEnd(current + 1, "not_single_quote")

TerminatedDouble ==
    AtBoundary /\ source[current + 1] = "\"" /\ At(DoubleQuoteClose) = Some("\"")

TerminatedSingle ==
    AtBoundary /\ source[current + 1] = "'" /\ At(SingleQuoteClose) = Some("'")

C19_QuotedPayloadVerbatim ==
    [][/\ TerminatedDouble
          => /\ Emits(DoubleQuotedString(slice(source, current + 1, DoubleQuoteClose)))
             /\ current' = DoubleQuoteClose + 1
             /\ had_error' = had_error
       /\ TerminatedSingle
          => /\ Emits(SingleQuotedString(slice(source, current + 1, SingleQuoteClose)))
             /\ current' = SingleQuoteClose + 1
             /\ had_error' = had_error]_vars

\* A double-quoted string that holds a quote of the other kind has been
\* scanned, and the cursor is past its closing quote: `"'"`.
C19_Witness ==
    /\ tokens = <<DoubleQuotedString(<<"'">>)>>
    /\ current = 3
    /\ ~had_error

(***************************************************************************)
(* C20.  A `$` directly followed by a name character yields                *)
(* VariableExpansion(name), name the maximal run of name characters after  *)
(* the `$`, and the cursor is left at the end of that run.  A `$` followed *)
(* by none of `(`, `{` or a name character, a `$` that ends the input      *)
(* included, sets the error flag and appends no token, and get_tokens      *)
(* returns None.                                                           *)
(***************************************************************************)
DollarLexeme == AtBoundary /\ source[current + 1] = "$"

NameEnd == RunEnd(current + 1, "allowed_name_char")

DollarThenName == DollarLexeme /\ is_some_and(At(current + 1), "allowed_name_char")

DollarThenNothing ==
    /\ DollarLexeme
    /\ At(current + 1) # Some("(")
    /\ At(current + 1) # Some("{")
    /\ ~is_some_and(At(current + 1), "allowed_name_char")

C20_DollarNameOrError ==
    /\ []((Returned /\ had_error) => is_none(result.value))
    /\ [][/\ DollarThenName
             => /\ Emits(VariableExpansion(slice(source, current + 1, NameEnd)))
                /\ current' = NameEnd
                /\ had_error' = had_error
          /\ DollarThenNothing => (had_error' /\ tokens' = tokens)]_vars

\* get_tokens returned None for an input whose last character is a `$` that
\* follows a variable expansion: `$a$`.
C20_Witness ==
    /\ ReturnedNone
    /\ source = <<"$", "a", "$">>
    /\ tokens = <<VariableExpansion(<<"a">>), EOF>>
    /\ Len(diagnostics) = 1

(***************************************************************************)
(* C21.  When `$(` is opened and the end of the input is reached before    *)
(* the parenthesis stack empties, the dispatch of the `$` writes the       *)
(* diagnostic " unmatched pair" and sets the error flag, appends no token  *)
(* (so no nested scan result is stored), and get_tokens returns None.      *)
(***************************************************************************)
SubshellUnclosed ==
    /\ AtBoundary
    /\ source[current + 1] = "$"
    /\ At(current + 1) = Some("(")
    /\ ~Balanced(current + 1)

C21_UnmatchedSubshellFails ==
    /\ []((Returned /\ \E i \in 1..Len(diagnostics) : diagnostics[i].msg = " unmatched pair")
              => is_none(result.value))
    /\ [][SubshellUnclosed
          => /\ had_error'
             /\ tokens' = tokens
             /\ diagnostics' = Append(diagnostics,
                                      [col |-> Len(source) - 1, msg |-> " unmatched pair"])
             /\ current' = Len(source) + 1]_vars

\* get_tokens returned None for a subshell whose nested `(` is closed but
\* whose own `(` is not: `$(()`.
C21_Witness ==
    /\ ReturnedNone
    /\ source = <<"$", "(", "(", ")">>
    /\ tokens = <<EOF>>
    /\ Len(diagnostics) = 1

(***************************************************************************)
(* C22.  The cursor invariant 0 <= start <= current <= len(source) holds   *)
(* in every reachable state of the scanner: after error paths, after the   *)
(* skip of the closing character of a string, of `${...}` and of `$(...)`, *)
(* and after the two- and three-character advances of the range            *)
(* recognizer.                                                             *)
(***************************************************************************)
C22_CursorInvariant ==
    /\ 0 <= start
    /\ start <= current
    /\ current <= Len(source)

(***************************************************************************)
(* C23.  For every finite input the scan terminates and EOF is eventually  *)
(* appended, with or without errors: get_tokens eventually returns with    *)
(* EOF as the last token; each iteration of the scan loop leaves current   *)
(* strictly greater than it found it, also when parse_number resets        *)
(* current to start and scans the lexeme again as a word; and the Scanner  *)
(* created for `$( ... )` scans a string strictly shorter than the source  *)
(* of the scanner that creates it.                                         *)
(***************************************************************************)
NestedSource == new_scanner(slice(source, current + 2, MatchingParen(current + 1))).source

C23_ScanTerminates ==
    /\ <>(Returned /\ tokens # <<>> /\ IsEOF(tokens[Len(tokens)]))
    /\ [][AtBoundary => current' > current /\ pc' = "scanning"]_vars
    /\ [](SubshellOpened => Len(NestedSource) < Len(source))

\* get_tokens returned for an input whose float literal was scanned a second
\* time as a word: `1.1a`.
C23_Witness ==
    /\ Returned
    /\ \E i \in 1..(Len(tokens) - 1) :
           /\ tokens[i].type = "Float"
           /\ tokens[i + 1].type = "Word"
           /\ tokens[i + 1].text = source

(***************************************************************************)
(* C24.  For every error kind, the dispatch step that emits the error      *)
(* appends no token to the token sequence, and the scan loop then goes on  *)
(* with the lexemes that follow: a step that writes a diagnostic leaves    *)
(* tokens as it was and stays in the loop.                                 *)
(***************************************************************************)
C24_ErrorStepAppendsNoToken ==
    [][diagnostics' # diagnostics => tokens' = tokens /\ pc' = "scanning"]_vars

(***************************************************************************)
(* C25.  Inside a range expression a missing operand never becomes a       *)
(* value.  A range token is appended only when every operand it holds was  *)
(* read from a non-empty digit run that ends before the end of the input   *)
(* (or, in an alphabetic range, from a letter that is there), and it holds *)
(* the values of those runs; when the digit run at the position of an      *)
(* operand is empty or the position is at or past the end of the input,    *)
(* parse_and_get_integer called there yields a parse failure, and the      *)
(* dispatch of the `{` sets the error flag and appends no token.           *)
(***************************************************************************)
DigitRunMissing(i) ==
    RunEnd(i, "is_numeric") = i \/ RunEnd(i, "is_numeric") >= Len(source)

NumericRangeOpened ==
    AtBoundary /\ source[current + 1] = "{" /\ NumericOperandAt(current + 1)

AlphabeticRangeOpened ==
    AtBoundary /\ source[current + 1] = "{" /\ AlphabeticOperandAt(current + 1)

\* Where the numeric recognizer reads its second and third operand.
NumericEndStart == RunEnd(current + 1, "is_numeric") + 2

NumericStepStart == RunEnd(NumericEndStart, "is_numeric") + 2

\* Where the alphabetic recognizer reads its second letter and its step.
AlphabeticEndAt == current + 4

AlphabeticStepStart == current + 7

StepFrom(i) ==
    \/ Emitted.by = None
    \/ ~DigitRunMissing(i) /\ Emitted.by = Some(RunValue(i))

RangeRejected == had_error' /\ tokens' = tokens /\ Len(diagnostics') = Len(diagnostics) + 1

C25_MissingOperandNeverAValue ==
    [][/\ AtBoundary
          => \A i \in 0..(Len(source) + 3) :
                 DigitRunMissing(i)
                     => ~parse_and_get_integer([Self EXCEPT !.current = i]).result.ok
       /\ NumericRangeOpened /\ tokens' # tokens
          => /\ EmitsOne
             /\ Emitted.type = "RangeExpressionNumeric"
             /\ ~DigitRunMissing(current + 1)
             /\ ~DigitRunMissing(NumericEndStart)
             /\ Emitted.first = RunValue(current + 1)
             /\ Emitted.last = RunValue(NumericEndStart)
             /\ StepFrom(NumericStepStart)
       /\ NumericRangeOpened
              /\ (DigitRunMissing(current + 1) \/ DigitRunMissing(NumericEndStart))
          => RangeRejected
       /\ NumericRangeOpened
              /\ At(NumericStepStart - 2) # Some("}")
              /\ DigitRunMissing(NumericStepStart)
          => RangeRejected
       /\ AlphabeticRangeOpened /\ tokens' # tokens
          => /\ EmitsOne
             /\ Emitted.type = "RangeExpressionAlphabetic"
             /\ AlphabeticOperandAt(AlphabeticEndAt)
             /\ Emitted.first = source[current + 2]
             /\ Emitted.last = source[AlphabeticEndAt + 1]
             /\ StepFrom(AlphabeticStepStart)
       /\ AlphabeticRangeOpened /\ ~AlphabeticOperandAt(AlphabeticEndAt)
          => RangeRejected
       /\ AlphabeticRangeOpened
              /\ At(AlphabeticEndAt + 1) # Some("}")
              /\ DigitRunMissing(AlphabeticStepStart)
          => RangeRejected]_vars

\* get_tokens returned None for a numeric range whose step is missing:
\* `{1..1..}`.
C25_Witness ==
    /\ ReturnedNone
    /\ source = <<"{", "1", ".", ".", "1", ".", ".", "}">>
    /\ tokens = <<EOF>>

(***************************************************************************)
(* C26.  At a lexeme boundary the letter `r` is consumed with no token and *)
(* no error, exactly like space, tab and newline: the step leaves tokens,  *)
(* the error flag and the diagnostics as they were and moves the cursor by *)
(* one, so the rest of a lexeme that starts with `r` is scanned as the     *)
(* next lexeme.  An `r` that is not the first character of its lexeme is   *)
(* kept: a lexeme that starts with another letter, or with a digit that    *)
(* `r` follows, becomes one word token with the whole run of word          *)
(* characters as its text.                                                 *)
(***************************************************************************)
SkippedAtBoundary == AtBoundary /\ source[current + 1] \in {"r", " ", "\t", "\n"}

LetterLexeme ==
    /\ AtBoundary
    /\ \/ is_ascii_alphabetic(source[current + 1]) /\ source[current + 1] # "r"
       \/ is_numeric(source[current + 1]) /\ At(current + 1) = Some("r")

C26_LeadingRSkipped ==
    [][/\ SkippedAtBoundary
          => /\ tokens' = tokens
             /\ had_error' = had_error
             /\ diagnostics' = diagnostics
             /\ current' = current + 1
             /\ pc' = "scanning"
       /\ LetterLexeme => EmitsWordFromHere]_vars

\* get_tokens returned for `rar`: the first `r` is gone, the second is kept.
C26_Witness ==
    /\ ReturnedSome
    /\ source = <<"r", "a", "r">>
    /\ result.value = Some(<<Word(<<"a", "r">>), EOF>>)

(***************************************************************************)
(* C27.  For every ASCII input get_tokens runs to completion without a     *)
(* runtime panic: emit_error is never reached with current = 0, so every   *)
(* column current - 1 that is printed is at least 0, and every slice       *)
(* source[a..b] that is taken has a <= b <= len(source), also in states    *)
(* where current is past the end of the source.                            *)
(***************************************************************************)
C27_NoPanic ==
    /\ pc # "panicked"
    /\ \A i \in 1..Len(diagnostics) : diagnostics[i].col >= 0

\* get_tokens returned with the cursor past the end of the source, after an
\* error was emitted and a slice was taken in a state like that: `"a`.
C27_Witness ==
    /\ Returned
    /\ current > Len(source)
    /\ diagnostics # <<>>
    /\ Len(tokens) >= 2

====
